---- MODULE Spec2Model ----
(***************************************************************************)
(* The guessing game of guessing_game/src/main.rs.                         *)
(*                                                                         *)
(* main prints a banner, draws secret_number with gen_range(1, 101) and    *)
(* then loops: print the prompt, read one line from stdin, trim it and     *)
(* parse it as a u32, compare it with secret_number and print the result.  *)
(* The loop is left by the break of the Equal arm or by the panic of       *)
(* expect("Failed to read line").                                          *)
(*                                                                         *)
(* A String is a sequence of characters, each a one-character string; a    *)
(* character that a TLA+ string cannot hold is written as its code point,  *)
(* "U+00A0".  The program blocks only in read_line, so one action covers   *)
(* the prompt, the read and the parse, and a second one covers the echo    *)
(* and the comparison.  Every println! panics when stdout refuses the      *)
(* write; SpecStdoutOk is the program on a stdout that accepts what is     *)
(* printed.                                                                *)
(***************************************************************************)
EXTENDS Integers, Sequences, FiniteSets, TLC

VARIABLES
    pc,             \* "Start", "AwaitingGuess", "Evaluating", "Won", "Panicked"
    secret_number,  \* main.rs:30, NoU32 before the draw
    guess_line,     \* the String of main.rs:55 after read_line, kept until the next read
    guess,          \* the u32 of main.rs:122, NoU32 while unbound
    rd,             \* result of the last read_line: "none", "line", "eof", "err"
    out,            \* what the current iteration has printed to stdout so far
    stderr,         \* the panic message, if any
    exit,           \* process exit status, NoValue while running
    rep,            \* history: the line just read is the line of the previous iteration
    prev_out        \* history: what that previous iteration printed (<<>> unless rep)

vars == <<pc, secret_number, guess_line, guess, rd, out, stderr, exit, rep, prev_out>>

----------------------------------------------------------------------------
(* Bounds of the model *)

\* longest line built freely from Alphabet
MaxLen == 2
\* the numbers within Near of the secret are all offered as guesses
Near == 1

----------------------------------------------------------------------------
(* Program constants *)

\* gen_range(1, 101): low bound, inclusive
SecretLow == 1
\* gen_range(1, 101): high bound, exclusive
SecretHigh == 101
\* the range the prompt announces: "between 1 and 100"
Min == 1
Max == 100
\* guess: u32, held as two 16-bit halves (TLC's integers are 32-bit signed)
HalfBits == 16
\* exit status of a Rust process whose main thread panicked
PanicExitCode == 101

NoValue == -1

----------------------------------------------------------------------------
(* u32 *)

Half == 2^HalfBits

\* the u32 with the value hi * 2^16 + lo
U32(hi, lo) == [hi |-> hi, lo |-> lo]

\* an unbound u32
NoU32 == U32(NoValue, NoValue)

\* the u32 of a number below 2^31
FromNat(n) == U32(n \div Half, n % Half)

\* u32::MAX
U32Max == U32(Half - 1, Half - 1)

\* u32::checked_mul(10) followed by u32::checked_add(d): NoU32 on overflow
MulAdd(a, d) ==
    LET t == a.lo * 10 + d
        h == a.hi * 10 + (t \div Half)
    IN  IF h >= Half THEN NoU32 ELSE U32(h, t % Half)

\* a divided by ten, and the remainder
Div10(a) == U32(a.hi \div 10, (((a.hi % 10) * Half) + a.lo) \div 10)
Mod10(a) == (((a.hi % 10) * Half) + a.lo) % 10

----------------------------------------------------------------------------
(* Strings *)

Digits == <<"0", "1", "2", "3", "4", "5", "6", "7", "8", "9">>

\* char::is_whitespace: the characters with the Unicode property White_Space
WhiteSpace ==
    {"\t", "\n", "U+000B", "\f", "\r", " ", "U+0085", "U+00A0", "U+1680",
     "U+2000", "U+2001", "U+2002", "U+2003", "U+2004", "U+2005", "U+2006",
     "U+2007", "U+2008", "U+2009", "U+200A",
     "U+2028", "U+2029", "U+202F", "U+205F", "U+3000"}

\* the value of an ASCII digit, NoValue for any other character (char::to_digit(10))
to_digit(c) ==
    IF \E i \in 1..10 : Digits[i] = c
    THEN (CHOOSE i \in 1..10 : Digits[i] = c) - 1
    ELSE NoValue

RECURSIVE trim_start(_)
trim_start(s) ==
    IF s # <<>> /\ Head(s) \in WhiteSpace THEN trim_start(Tail(s)) ELSE s

RECURSIVE trim_end(_)
trim_end(s) ==
    IF s # <<>> /\ s[Len(s)] \in WhiteSpace
    THEN trim_end(SubSeq(s, 1, Len(s) - 1))
    ELSE s

\* str::trim
trim(s) == trim_end(trim_start(s))

Ok(n) == [ok |-> TRUE, val |-> n]
Err == [ok |-> FALSE, val |-> NoU32]

\* the digit loop of u32::from_str: left to right, checked multiply and add
RECURSIVE parse_digits(_, _)
parse_digits(s, acc) ==
    IF s = <<>> THEN Ok(acc)
    ELSE IF to_digit(Head(s)) = NoValue THEN Err
    ELSE IF MulAdd(acc, to_digit(Head(s))) = NoU32 THEN Err
    ELSE parse_digits(Tail(s), MulAdd(acc, to_digit(Head(s))))

\* a parse that reads the empty string as zero, as C's atoi does
parse_atoi(s) ==
    IF s = <<>> THEN Ok(FromNat(0))
    ELSE IF Head(s) = "+"
         THEN (IF Tail(s) = <<>> THEN Err ELSE parse_digits(Tail(s), FromNat(0)))
         ELSE parse_digits(s, FromNat(0))

\* str::parse::<u32>: an optional "+", then at least one digit; "-" is not a
\* sign for an unsigned type, and a value above u32::MAX is an error
parse(s) ==
    IF s = <<>> THEN Err
    ELSE IF Head(s) = "+"
         THEN (IF Tail(s) = <<>> THEN Err ELSE parse_digits(Tail(s), FromNat(0)))
         ELSE parse_digits(s, FromNat(0))

\* Display for u32, the "{}" of println!
RECURSIVE to_string(_)
to_string(n) ==
    IF Div10(n) = FromNat(0) THEN <<Digits[Mod10(n) + 1]>>
    ELSE Append(to_string(Div10(n)), Digits[Mod10(n) + 1])

----------------------------------------------------------------------------
(* Messages *)

Msg(text) == [text |-> text, arg |-> <<>>]

Banner == Msg("Guess the number!")
Prompt == Msg("Please input your guess, between 1 and 100.")
PleaseEnterANumber == Msg("Please enter a number")
YouGuessed(n) == [text |-> "You guessed: {}", arg |-> to_string(n)]
TooSmall == Msg("Too small!")
TooBig == Msg("Too big!")
YouWin == Msg("You win!")
FailedToReadLine == Msg("Failed to read line")
FailedPrinting == Msg("failed printing to stdout")

----------------------------------------------------------------------------
(* The comparison *)

\* a gen_range whose high bound is inclusive
gen_range_inclusive(low, high) == {FromNat(n) : n \in low .. high}

\* gen_range(low, high): low inclusive, high exclusive
gen_range(low, high) == {FromNat(n) : n \in low .. (high - 1)}

\* Ord::cmp for u32
cmp(a, b) ==
    IF a.hi < b.hi \/ (a.hi = b.hi /\ a.lo < b.lo) THEN "Less"
    ELSE IF a.hi > b.hi \/ (a.hi = b.hi /\ a.lo > b.lo) THEN "Greater"
    ELSE "Equal"

\* the Less and Greater arms exchanged
ArmMessage_swapped(ord) ==
    CASE ord = "Less" -> TooBig
      [] ord = "Greater" -> TooSmall
      [] ord = "Equal" -> YouWin

\* what each arm of the match on the Ordering prints
ArmMessage(ord) ==
    CASE ord = "Less" -> TooSmall
      [] ord = "Greater" -> TooBig
      [] ord = "Equal" -> YouWin

\* a break in the Greater arm as well
ArmBreaks_greater(ord) == ord \in {"Equal", "Greater"}

\* only the Equal arm breaks out of the loop
ArmBreaks(ord) == ord = "Equal"

----------------------------------------------------------------------------
(* The input the environment can supply *)

Alphabet == {" ", "+", "-", "5", "a"}

RECURSIVE StringsOfLen(_)
StringsOfLen(n) ==
    IF n = 0 THEN {<<>>}
    ELSE {Append(s, c) : s \in StringsOfLen(n - 1), c \in Alphabet}

\* u32::MAX is 4294967295
OnePastU32Max == <<"4", "2", "9", "4", "9", "6", "7", "2", "9", "6">>

LeadingZeros == <<"0", "0", "7">>
MinusZero == <<"-", "0">>
\* whitespace other than the blank and the newline, on both sides
FormFeeds == <<"U+00A0", "5", "\f">>

\* the numbers offered as guesses when the secret is s: its neighbours, the
\* ends of the announced range and the numbers just outside it
Guesses(s) ==
    {n \in (s.lo - Near) .. (s.lo + Near) : n >= 0}
      \cup {Min - 1, Min, Max, Max + 1}

\* the lines offered whatever the secret is: every string of at most MaxLen
\* characters of Alphabet, and the edges of u32 and of the digit syntax
FixedLines ==
    UNION {StringsOfLen(n) : n \in 0..MaxLen}
      \cup {to_string(U32Max), OnePastU32Max, LeadingZeros, MinusZero, FormFeeds}

\* the text of a line, without its terminator, when the secret is s
Lines(s) == FixedLines \cup {to_string(FromNat(n)) : n \in Guesses(s)}

\* the texts offered without a terminator (the stream ends before a newline)
Unterminated(s) == StringsOfLen(1) \cup {to_string(FromNat(n)) : n \in Guesses(s)}

----------------------------------------------------------------------------
(* The program *)

Init ==
    /\ pc = "Start"
    /\ secret_number = NoU32
    /\ guess_line = <<>>
    /\ guess = NoU32
    /\ rd = "none"
    /\ out = <<>>
    /\ stderr = <<>>
    /\ exit = NoValue
    /\ rep = FALSE
    /\ prev_out = <<>>

\* a panic of the main thread: the message goes to stderr, the process exits
Panic(msg) ==
    /\ pc' = "Panicked"
    /\ stderr' = <<msg>>
    /\ exit' = PanicExitCode

\* main.rs:28-30: the banner and the draw of the secret
DrawSecret ==
    /\ pc = "Start"
    /\ \E n \in gen_range(SecretLow, SecretHigh) : secret_number' = n
    /\ out' = <<Banner>>
    /\ pc' = "AwaitingGuess"
    /\ UNCHANGED <<guess_line, guess, rd, stderr, exit, rep, prev_out>>

\* main.rs:123: Ok(num) => num
OkArm(num) ==
    /\ guess' = num
    /\ out' = <<Prompt>>
    /\ pc' = "Evaluating"
    /\ UNCHANGED <<secret_number, stderr, exit>>

\* main.rs:124-127: Err(_) => { println!; continue }
ErrArm ==
    /\ guess' = NoU32
    /\ out' = <<Prompt, PleaseEnterANumber>>
    /\ pc' = "AwaitingGuess"
    /\ UNCHANGED <<secret_number, stderr, exit>>

\* main.rs:124-125 when stdout refuses the message: println! panics
ErrArmPanics ==
    /\ guess' = NoU32
    /\ out' = <<Prompt>>
    /\ Panic(FailedPrinting)
    /\ UNCHANGED secret_number

\* main.rs:122-128: the match on guess.trim().parse(); printed tells whether
\* stdout accepts the message of the Err arm
ParseGuess(s, printed) ==
    IF parse(trim(s)).ok THEN printed /\ OkArm(parse(trim(s)).val)
    ELSE IF printed THEN ErrArm
    ELSE ErrArmPanics

\* main.rs:40-128 when read_line returns a line: text, followed by a newline
\* unless the stream ended before one came
ReadLineThen(printed) ==
    /\ pc = "AwaitingGuess"
    /\ \/ \E text \in Lines(secret_number) : guess_line' = Append(text, "\n")
       \/ \E text \in Unterminated(secret_number) : guess_line' = text
    /\ rd' = "line"
    /\ rep' = (rd = "line" /\ guess_line' = guess_line)
    /\ prev_out' = (IF rep' THEN out ELSE <<>>)
    /\ ParseGuess(guess_line', printed)

ReadLine == ReadLineThen(TRUE)

\* main.rs:40-128 at end of input: read_line returns Ok(0) and leaves the
\* String empty, expect does not panic, and the empty String fails to parse.
\* Nothing latches the end of input: the next read_line reads the stream again.
ReadEofThen(printed) ==
    /\ pc = "AwaitingGuess"
    /\ guess_line' = <<>>
    /\ rd' = "eof"
    /\ rep' = FALSE
    /\ prev_out' = <<>>
    /\ ParseGuess(guess_line', printed)

ReadEof == ReadEofThen(TRUE)

\* main.rs:40-91 when read_line returns Err (an I/O error, or bytes that are
\* not UTF-8): expect panics
ReadFail ==
    /\ pc = "AwaitingGuess"
    /\ guess_line' = <<>>
    /\ guess' = NoU32
    /\ rd' = "err"
    /\ rep' = FALSE
    /\ prev_out' = <<>>
    /\ out' = <<Prompt>>
    /\ Panic(FailedToReadLine)
    /\ UNCHANGED secret_number

\* main.rs:134-153: the echo and the match on guess.cmp(&secret_number)
Evaluate ==
    /\ pc = "Evaluating"
    /\ out' = out \o <<YouGuessed(guess), ArmMessage(cmp(guess, secret_number))>>
    /\ IF ArmBreaks(cmp(guess, secret_number))
       THEN pc' = "Won" /\ exit' = 0
       ELSE pc' = "AwaitingGuess" /\ exit' = exit
    /\ guess' = NoU32
    /\ UNCHANGED <<secret_number, guess_line, rd, stderr, rep, prev_out>>

\* main.rs:28 when stdout refuses the banner
BannerPanics ==
    /\ pc = "Start"
    /\ Panic(FailedPrinting)
    /\ UNCHANGED <<secret_number, guess_line, guess, rd, out, rep, prev_out>>

\* main.rs:40 when stdout refuses the prompt: nothing is read
PromptPanics ==
    /\ pc = "AwaitingGuess"
    /\ out' = <<>>
    /\ Panic(FailedPrinting)
    /\ UNCHANGED <<secret_number, guess_line, guess, rd, rep, prev_out>>

\* main.rs:134 when stdout refuses the echo
EchoPanics ==
    /\ pc = "Evaluating"
    /\ guess' = NoU32
    /\ Panic(FailedPrinting)
    /\ UNCHANGED <<secret_number, guess_line, rd, out, rep, prev_out>>

\* main.rs:147-150 when stdout refuses the result of the comparison
ResultPanics ==
    /\ pc = "Evaluating"
    /\ out' = Append(out, YouGuessed(guess))
    /\ guess' = NoU32
    /\ Panic(FailedPrinting)
    /\ UNCHANGED <<secret_number, guess_line, rd, rep, prev_out>>

\* the steps of the program on a stdout that accepts what is printed
NextStdoutOk ==
    \/ DrawSecret
    \/ ReadLine
    \/ ReadEof
    \/ ReadFail
    \/ Evaluate

\* a println! whose write stdout refuses
StdoutFails ==
    \/ BannerPanics
    \/ PromptPanics
    \/ ReadLineThen(FALSE)
    \/ ReadEofThen(FALSE)
    \/ EchoPanics
    \/ ResultPanics

Next ==
    \/ NextStdoutOk
    \/ StdoutFails

Spec == Init /\ [][Next]_vars

SpecStdoutOk == Init /\ [][NextStdoutOk]_vars

----------------------------------------------------------------------------
(* Vocabulary of the properties, defined without the program's own trim,  *)
(* parse and cmp                                                          *)

\* message m is among the messages o
Has(o, m) == \E i \in 1..Len(o) : o[i] = m

\* the positions of o that hold the result of a comparison
OutcomesIn(o) == {i \in 1..Len(o) : o[i] \in {TooSmall, TooBig, YouWin}}

\* a is numerically below b
Below(a, b) == a.hi < b.hi \/ (a.hi = b.hi /\ a.lo < b.lo)

\* the u32 lies in the announced range
InRange(g) == g.hi = 0 /\ g.lo \in Min..Max

\* the blank characters: the ASCII ones and the Unicode spaces and separators
AsciiBlank == {" ", "\t", "\n", "U+000B", "\f", "\r"}
UnicodeBlank ==
    {"U+0085", "U+00A0", "U+1680", "U+2028", "U+2029", "U+202F", "U+205F", "U+3000"}
      \cup {<<"U+2000", "U+2001", "U+2002", "U+2003", "U+2004", "U+2005",
              "U+2006", "U+2007", "U+2008", "U+2009", "U+200A">>[i] : i \in 1..11}
Blank == AsciiBlank \cup UnicodeBlank

\* s without its leading and trailing whitespace
Stripped(s) ==
    LET solid == {i \in 1..Len(s) : s[i] \notin Blank}
    IN  IF solid = {} THEN <<>>
        ELSE SubSeq(s, CHOOSE i \in solid : \A j \in solid : i <= j,
                       CHOOSE i \in solid : \A j \in solid : i >= j)

IsDigit(c) == c \in {Digits[i] : i \in 1..10}

\* a non-empty run of decimal digits
IsDigits(s) == s # <<>> /\ \A i \in 1..Len(s) : IsDigit(s[i])

\* s without its sign
Unsigned(s) == IF s # <<>> /\ s[1] \in {"+", "-"} THEN Tail(s) ELSE s

\* a base-10 signed integer: an optional sign, then digits
IsSignedDecimal(s) == IsDigits(Unsigned(s))

\* a run of digits without its leading zeros
Canonical(s) ==
    LET nz == {i \in 1..Len(s) : s[i] # "0"}
    IN  IF nz = {} THEN <<"0">>
        ELSE SubSeq(s, CHOOSE i \in nz : \A j \in nz : i <= j, Len(s))

U32MaxText == <<"4", "2", "9", "4", "9", "6", "7", "2", "9", "5">>

\* digit runs of equal length: a is at most b
RECURSIVE AtMostText(_, _)
AtMostText(a, b) ==
    IF a = <<>> THEN TRUE
    ELSE IF to_digit(Head(a)) # to_digit(Head(b)) THEN to_digit(Head(a)) < to_digit(Head(b))
    ELSE AtMostText(Tail(a), Tail(b))

\* the digits s denote a number of at most 2^32 - 1
FitsU32(s) ==
    \/ Len(Canonical(s)) < Len(U32MaxText)
    \/ Len(Canonical(s)) = Len(U32MaxText) /\ AtMostText(Canonical(s), U32MaxText)

\* the decimal texts of the numbers of the announced range
RangeTexts == {to_string(FromNat(n)) : n \in Min..Max}

\* the text of an integer of the announced range
IsGuessInRange(s) ==
    /\ IsSignedDecimal(s)
    /\ s[1] # "-"
    /\ Canonical(Unsigned(s)) \in RangeTexts

\* an invalid line: anything but an integer of the announced range
InvalidLine(line) == ~IsGuessInRange(Stripped(line))

----------------------------------------------------------------------------
(* The properties *)

\* C1: every evaluated guess prints exactly one of "Too small!", "Too big!",
\* "You win!": "Too small!" iff guess < secret, "Too big!" iff guess > secret,
\* and in these two cases the loop goes on to the next prompt.
C1_CompareOutcome ==
    [][(pc = "Evaluating" /\ pc' # "Evaluating") =>
          /\ Has(out', TooSmall) <=> Below(guess, secret_number)
          /\ Has(out', TooBig) <=> Below(secret_number, guess)
          /\ Has(out', YouWin) <=> guess = secret_number
          /\ Cardinality(OutcomesIn(out')) = 1
          /\ guess # secret_number => (pc' = "AwaitingGuess" /\ exit' = NoValue)]_vars

C1_Witness ==
    /\ pc = "AwaitingGuess"
    /\ rd = "line"
    /\ Has(out, TooBig)
    /\ Below(secret_number, parse(trim(guess_line)).val)

\* C2: the loop is Won exactly when an evaluated guess equals the secret: the
\* win message is printed, the process ends with status 0 and reads nothing
\* more; a guess that differs from the secret never ends the loop.
C2_WonIffEqual ==
    /\ [](pc = "Won" => (Has(out, YouWin) /\ exit = 0 /\ stderr = <<>>))
    /\ [][(pc = "Evaluating" /\ pc' # "Evaluating") =>
             (pc' = "Won" <=> guess = secret_number)]_vars
    /\ [][(pc' = "Won" /\ pc # "Won") => (pc = "Evaluating" /\ guess = secret_number)]_vars
    /\ [][(pc = "Evaluating" /\ guess # secret_number) => (pc' # "Won" /\ exit' = NoValue)]_vars
    /\ [][pc = "Won" => UNCHANGED vars]_vars

C2_Witness ==
    /\ pc = "Won"
    /\ rd = "line"
    /\ Has(out, YouWin)
    /\ exit = 0

\* C3: a line whose trimmed text is not an integer gets the "Please enter a
\* number" message and nothing else, is not compared, does not end the
\* process, and the loop is back at the prompt.
C3_MalformedRetries ==
    (rd = "line" /\ ~IsSignedDecimal(Stripped(guess_line))) =>
        /\ pc = "AwaitingGuess"
        /\ out = <<Prompt, PleaseEnterANumber>>
        /\ guess = NoU32
        /\ exit = NoValue
        /\ stderr = <<>>

C3_Witness ==
    /\ rd = "line"
    /\ Stripped(guess_line) = <<>>
    /\ guess_line # <<>>
    /\ Has(out, PleaseEnterANumber)
    /\ pc = "AwaitingGuess"

\* C4: whenever the loop is Evaluating, the guess lies in [Min, Max].
C4_GuessInBounds ==
    pc = "Evaluating" => InRange(guess)

\* C5: an integer outside [Min, Max] is not compared with the secret: the
\* iteration that read it prints no comparison result.
C5_OutOfRangeNotCompared ==
    (rd = "line" /\ parse(trim(guess_line)).ok /\ ~InRange(parse(trim(guess_line)).val)) =>
        OutcomesIn(out) = {}

\* C6: once read_line has met the end of input the process has terminated
\* with a non-zero status and a diagnostic.
C6_EofTerminates ==
    rd = "eof" => (pc = "Panicked" /\ exit # NoValue /\ exit # 0 /\ stderr # <<>>)

\* C7: once drawn, the secret lies in [Min, Max] and never changes.
C7_SecretFixed ==
    /\ [](pc # "Start" => InRange(secret_number))
    /\ [](pc = "Start" => secret_number = NoU32)
    /\ [][pc # "Start" => secret_number' = secret_number]_vars

C7_Witness ==
    /\ secret_number = FromNat(Max)
    /\ pc = "AwaitingGuess"
    /\ rep
    /\ Has(out, TooSmall)

\* C8: a line whose trimmed text is a base-10 signed integer (an optional
\* sign, then digits; zero and negative integers such as "-5" included) is
\* taken on the success path: it is not answered as malformed input.
C8_SignedAccepted ==
    (rd = "line" /\ IsSignedDecimal(Stripped(guess_line))) =>
        /\ ~Has(out, PleaseEnterANumber)
        /\ pc \in {"Evaluating", "AwaitingGuess", "Won"}
        /\ pc # "Evaluating" => OutcomesIn(out) # {}

\* C9: an invalid line (anything but an integer of the announced range) is
\* answered by a corrective message and not by the result of a comparison,
\* the same each time the line is supplied again, and it leaves the secret,
\* the exit status and the loop state AwaitingGuess as they were.
C9_InvalidIdempotent ==
    /\ []((rd = "line" /\ InvalidLine(guess_line)) =>
             /\ pc = "AwaitingGuess"
             /\ OutcomesIn(out) = {}
             /\ exit = NoValue
             /\ rep => out = prev_out)
    /\ [][(rd' = "line" /\ InvalidLine(guess_line')) =>
             (secret_number' = secret_number /\ exit' = exit)]_vars

\* C10: every iteration that produces an outcome has read one input line, and
\* the loop moves only from AwaitingGuess to Evaluating, from Evaluating to
\* AwaitingGuess or Won, and never out of Won (a panic ends the process).
C10_OneLineOneOutcome ==
    /\ []((Has(out, PleaseEnterANumber) \/ OutcomesIn(out) # {}) => rd = "line")
    /\ [][pc' # pc =>
             \/ <<pc, pc'>> \in {<<"AwaitingGuess", "Evaluating">>,
                                 <<"Evaluating", "AwaitingGuess">>,
                                 <<"Evaluating", "Won">>}
             \/ <<pc, pc'>> \in {<<"Start", "AwaitingGuess">>,
                                 <<"AwaitingGuess", "Panicked">>}]_vars

====
